---------------------------- MODULE Spec2Model ----------------------------
(***************************************************************************)
(* A model of the auto-grading backend: the grading heuristic of model.py, *)
(* the Classroom client of classroom_integration.py and the route handlers *)
(* of main.py.                                                             *)
(*                                                                         *)
(* Text is a sequence of Unicode code points.  Grades are exact rationals  *)
(* kept as integers in units of 1/GradeScale, so that score*100,           *)
(* (1-score)*50, words/full_mark_word_count*100 and the mean of two of     *)
(* them are all whole numbers of units.                                    *)
(***************************************************************************)
EXTENDS Integers, Sequences, FiniteSets, TLC

(***************************************************************************)
(* Bounds of the model.                                                    *)
(***************************************************************************)
\* a text is one of the Units repeated 0..MaxRep times
MaxRep == 130
\* classifier scores are k/ScoreDen, k in 0..ScoreDen
ScoreDen == 2
\* train_on_examples is called at most MaxTrain times
MaxTrain == 1
\* number of requests that construct a ClassroomService
NumReq == 2
\* fetch_assignments returns at most MaxAssignments assignments
MaxAssignments == 2
\* get_student_submissions returns at most MaxSubmissions submissions
MaxSubmissions == 2

(***************************************************************************)
(* Program constants: the defaults of GradingModel.__init__.               *)
(***************************************************************************)
DefaultMaxChars == 512
DefaultMinWords == 20
DefaultFullMark == 500

GradeScale == 2 * ScoreDen * DefaultFullMark

Min(a, b) == IF a <= b THEN a ELSE b

(***************************************************************************)
(* model.py: the state of the global GradingModel instance, the locals of  *)
(* one predict_grade call, and what the helpers returned last.             *)
(***************************************************************************)
VARIABLES
  max_chars, min_words, full_mark_word_count,   \* self.* of grading_model
  pc,                \* position of the caller in predict_grade
  assignment_text,   \* the argument of predict_grade / generate_feedback
  processed_text, words, truncated_text,        \* locals of predict_grade
  result,            \* what the sentiment pipeline answered in this call
  grade_from_sentiment, word_based_grade,       \* locals, None when not set
  invoked,           \* whether the sentiment pipeline was called in this call
  nwords,            \* len(words) of this call, kept after the call returns
  ret,               \* the value predict_grade returned (units of 1/GradeScale)
  raised,            \* whether predict_grade raised
  feedback,          \* what generate_feedback returned
  train_ret,         \* what train_on_examples returned last
  nTrain             \* number of train_on_examples calls so far

gradeVars == <<max_chars, min_words, full_mark_word_count, pc, assignment_text,
               processed_text, words, truncated_text, result,
               grade_from_sentiment, word_based_grade, invoked, nwords,
               ret, raised, feedback, train_ret, nTrain>>

(***************************************************************************)
(* classroom_integration.py: what one request thread holds, and the token  *)
(* file all of them share.                                                 *)
(***************************************************************************)
VARIABLES
  token_file,   \* TOKEN_PICKLE on disk: Absent, Partial or a credential
  cpc,          \* cpc[p]: position of request p
  creds,        \* creds[p]: the local creds of get_classroom_service
  raisedAt,     \* raisedAt[p]: the statement whose exception left the client
  mcall,        \* mcall[p]: the method called and what the remote API did
  mret,         \* mret[p]: what the method returned
  path,         \* path[p]: "cached", "refresh" or "oauth"
  ranOAuth,     \* ranOAuth[p]: the OAuth flow was run
  wrote,        \* wrote[p]: the token file was rewritten
  fileAtReturn, \* fileAtReturn[p]: token_file when the service was returned
  overlapped    \* overlapped[p]: another request ran get_classroom_service
                \* while p did

authVars == <<token_file, cpc, creds, raisedAt, mcall, mret, path, ranOAuth,
              wrote, fileAtReturn, overlapped>>

(***************************************************************************)
(* main.py: one request to a route handler, the collaborator calls it has  *)
(* made, and the locals of grade_all.                                      *)
(***************************************************************************)
VARIABLES
  rpc,            \* position of the handler
  request,        \* the request being handled
  status,         \* the status of the response (0: none yet)
  effects,        \* the collaborator calls and side effects made, in order
  assignments,    \* grade_all: what fetch_assignments returned
  ai,             \* grade_all: index of the current assignment
  ga_grade,       \* grade_all: the grade predicted for the current assignment
  submissions,    \* grade_all: what get_student_submissions returned
  si,             \* grade_all: index of the current submission
  graded_results, \* grade_all: the list rendered at the end
  posts,          \* the post_grade calls made, in order
  listings,       \* what get_student_submissions answered, per assignment
  grades,         \* what predict_score answered, per assignment
  outcomes        \* what post_grade answered, per call

routeVars == <<rpc, request, status, effects, assignments, ai, ga_grade,
               submissions, si, graded_results, posts, listings, grades,
               outcomes>>

vars == <<gradeVars, authVars, routeVars>>

(***************************************************************************)
(* Characters.  \s of a str pattern and str.split() both use Unicode       *)
(* whitespace.                                                             *)
(***************************************************************************)
IsSpace(c) ==
  c \in {9, 10, 11, 12, 13, 28, 29, 30, 31, 32, 133, 160, 5760,
         8232, 8233, 8239, 8287, 12288} \cup (8192..8202)

IsAscii(c) == c < 128

\* str.lower() of one character, as one or two code points (0: none).
\* U+0130 lowers to "i" followed by U+0307; U+212A (Kelvin) lowers to "k".
LowerChar(c) ==
  IF c >= 65 /\ c <= 90 THEN <<c + 32, 0>>
  ELSE IF c >= 192 /\ c <= 222 /\ c # 215 THEN <<c + 32, 0>>
  ELSE IF c = 304 THEN <<105, 775>>
  ELSE IF c = 8490 THEN <<107, 0>>
  ELSE <<c, 0>>

\* text.lower()
Lower(t) ==
  LET wide == [k \in 1..(2 * Len(t)) |-> LowerChar(t[(k + 1) \div 2])[2 - (k % 2)]]
  IN  SelectSeq(wide, LAMBDA c : c # 0)

\* re.sub(r'\s+', ' ', text): every maximal run of whitespace becomes one space
CollapseSpaces(t) ==
  LET marked == [i \in 1..Len(t) |->
                   <<t[i], IsSpace(t[i]), i > 1 /\ IsSpace(t[i - 1])>>]
      kept   == SelectSeq(marked, LAMBDA m : ~(m[2] /\ m[3]))
  IN  [i \in 1..Len(kept) |-> IF kept[i][2] THEN 32 ELSE kept[i][1]]

\* .strip() of a text whose whitespace runs have been collapsed: the only
\* whitespace it can start or end with is one space
Strip(t) ==
  IF t = <<>> THEN <<>>
  ELSE SubSeq(t, IF IsSpace(t[1]) THEN 2 ELSE 1,
                 IF IsSpace(t[Len(t)]) THEN Len(t) - 1 ELSE Len(t))

\* text.encode('ascii', errors='ignore').decode('ascii')
AsciiOnly(t) == SelectSeq(t, IsAscii)

clean_text(t) == AsciiOnly(Strip(CollapseSpaces(Lower(t))))

preprocess_text(t) == clean_text(t)

\* str.split(): the maximal runs of non-whitespace characters, in order
Split(t) ==
  LET isStart(i) == ~IsSpace(t[i]) /\ (i = 1 \/ IsSpace(t[i - 1]))
      isEnd(i)   == ~IsSpace(t[i]) /\ (i = Len(t) \/ IsSpace(t[i + 1]))
      idx        == [i \in 1..Len(t) |-> i]
      starts     == SelectSeq(idx, isStart)
      ends       == SelectSeq(idx, isEnd)
  IN  [k \in 1..Len(starts) |-> SubSeq(t, starts[k], ends[k])]

\* text[:n]
Prefix(t, n) == SubSeq(t, 1, Min(n, Len(t)))

(***************************************************************************)
(* The sentiment pipeline's answers.  A label is a string; upper() of it   *)
(* is modelled on the labels used.  A score is k/ScoreDen.                 *)
(***************************************************************************)
Labels == {"POSITIVE", "NEGATIVE", "positive"}

Upper(label) == IF label = "positive" THEN "POSITIVE" ELSE label

\* kind "ok": result[0] has 'label' and 'score'; "raise": the pipeline raised;
\* "empty": result is an empty list; "nokey": result[0] lacks 'label' or 'score'
PipelineResults ==
  [kind : {"ok"}, label : Labels, score : 0..ScoreDen]
    \cup [kind : {"raise", "empty", "nokey"}, label : {""}, score : {0}]

\* Python's None, for a local that holds no number
None == 0 - 1

NoResult == [kind |-> "none", label |-> "", score |-> 0]

\* a variant of map_sentiment_to_grade without the halved negative branch
MapNegativeUnhalved(label, sentiment_score) ==
  IF Upper(label) = "POSITIVE"
    THEN (sentiment_score * 100 * GradeScale) \div ScoreDen
    ELSE ((ScoreDen - sentiment_score) * 100 * GradeScale) \div ScoreDen

map_sentiment_to_grade(label, sentiment_score) ==
  IF Upper(label) = "POSITIVE"
    THEN (sentiment_score * 100 * GradeScale) \div ScoreDen
    ELSE ((ScoreDen - sentiment_score) * 50 * GradeScale) \div ScoreDen

\* a variant of WordBasedGrade without the cap at 100
WordBasedGradeUncapped(n, fm) == (n * 100 * GradeScale) \div fm

\* min(100, (len(words) / self.full_mark_word_count) * 100)
WordBasedGrade(n, fm) == Min(100 * GradeScale, (n * 100 * GradeScale) \div fm)


(***************************************************************************)
(* The texts the model grades: a short unit repeated.  The units cover     *)
(* upper case, runs of mixed whitespace, non-ASCII letters inside and      *)
(* outside words, non-ASCII whitespace, and characters whose lower case is *)
(* ASCII.                                                                  *)
(***************************************************************************)
Units ==
  { <<119, 32>>,                         \* "w "
    <<72, 105, 9, 10, 84, 111, 32>>,     \* "Hi\t\nTo "
    <<233, 32>>,                         \* "e-acute ": a word with no ASCII
    \* "a", NBSP, "b", e-acute, two spaces, "C", tab, "d", e-acute, "e", LF
    <<97, 160, 98, 233, 32, 32, 67, 9, 100, 233, 101, 10>>,
    <<304, 12288, 8490, 32>> }           \* U+0130, ideographic space, Kelvin

Repeat(u, n) == [i \in 1..(n * Len(u)) |-> u[((i - 1) % Len(u)) + 1]]

Texts == { Repeat(u, n) : u \in Units, n \in 0..MaxRep }

Epochs == {5, 10}

(***************************************************************************)
(* GradingModel.predict_grade, statement by statement.                     *)
(***************************************************************************)
\* the call: predict_score(text) -> grading_model.predict_grade(text)
PG_Call(text) ==
  /\ pc = "idle"
  /\ pc' = "preprocess"
  /\ assignment_text' = text
  /\ invoked' = FALSE
  /\ result' = NoResult
  /\ grade_from_sentiment' = None
  /\ word_based_grade' = None
  /\ UNCHANGED <<max_chars, min_words, full_mark_word_count, processed_text,
                 words, truncated_text, nwords, ret, raised, feedback,
                 train_ret, nTrain>>
  /\ UNCHANGED <<authVars, routeVars>>

\* processed_text = self.preprocess_text(assignment_text); words = processed_text.split()
PG_Preprocess ==
  /\ pc = "preprocess"
  /\ pc' = "check"
  /\ processed_text' = preprocess_text(assignment_text)
  /\ words' = Split(processed_text')
  /\ nwords' = Len(words')
  /\ UNCHANGED <<max_chars, min_words, full_mark_word_count, assignment_text,
                 truncated_text, result, grade_from_sentiment,
                 word_based_grade, invoked, ret, raised, feedback,
                 train_ret, nTrain>>
  /\ UNCHANGED <<authVars, routeVars>>

\* a variant of TooShort that lets min_words - 1 words through
TooShortOffByOne(ws, mw) == Len(ws) < mw - 1

\* len(words) < self.min_words
TooShort(ws, mw) == Len(ws) < mw

\* if len(words) < self.min_words: return 0.0
PG_Reject ==
  /\ pc = "check"
  /\ TooShort(words, min_words)
  /\ pc' = "done"
  /\ ret' = 0
  /\ raised' = FALSE
  /\ processed_text' = <<>>
  /\ words' = <<>>
  /\ UNCHANGED <<max_chars, min_words, full_mark_word_count, assignment_text,
                 truncated_text, result, grade_from_sentiment,
                 word_based_grade, invoked, nwords, feedback,
                 train_ret, nTrain>>
  /\ UNCHANGED <<authVars, routeVars>>

\* truncated_text = processed_text[:self.max_chars]
PG_Truncate ==
  /\ pc = "check"
  /\ ~TooShort(words, min_words)
  /\ pc' = "classify"
  /\ truncated_text' = Prefix(processed_text, max_chars)
  /\ UNCHANGED <<max_chars, min_words, full_mark_word_count, assignment_text,
                 processed_text, words, result, grade_from_sentiment,
                 word_based_grade, invoked, nwords, ret, raised,
                 feedback, train_ret, nTrain>>
  /\ UNCHANGED <<authVars, routeVars>>

\* a variant of GradeAfterClassifier whose fallback still averages
FallbackAveraged(res, n, fm) ==
  IF res.kind = "ok"
    THEN (map_sentiment_to_grade(res.label, res.score) + WordBasedGrade(n, fm)) \div 2
    ELSE WordBasedGrade(n, fm) \div 2

\* the value of the try block, or of the except block when the try block fails
GradeAfterClassifier(res, n, fm) ==
  IF res.kind = "ok"
    THEN (map_sentiment_to_grade(res.label, res.score) + WordBasedGrade(n, fm)) \div 2
    ELSE WordBasedGrade(n, fm)

\* the try/except around the pipeline call, and the return
PG_Classify(res) ==
  /\ pc = "classify"
  /\ pc' = "done"
  /\ invoked' = TRUE
  /\ result' = res
  /\ grade_from_sentiment' =
       IF res.kind = "ok" THEN map_sentiment_to_grade(res.label, res.score)
                          ELSE None
  /\ IF full_mark_word_count = 0
       THEN \* ZeroDivisionError in the try block and again in the except block
            raised' = TRUE /\ ret' = 0 /\ word_based_grade' = None
       ELSE /\ raised' = FALSE
            /\ word_based_grade' =
                 IF res.kind = "ok"
                   THEN WordBasedGrade(Len(words), full_mark_word_count)
                   ELSE None
            /\ ret' = GradeAfterClassifier(res, Len(words), full_mark_word_count)
  /\ processed_text' = <<>>
  /\ words' = <<>>
  /\ truncated_text' = <<>>
  /\ UNCHANGED <<max_chars, min_words, full_mark_word_count, assignment_text,
                 nwords, feedback, train_ret, nTrain>>
  /\ UNCHANGED <<authVars, routeVars>>

(***************************************************************************)
(* generate_feedback                                                       *)
(***************************************************************************)
Excellent == "Excellent work! Your essay is well-structured and insightful."
Good == "Good job. Consider adding more examples and details to support your ideas."
NeedsImprovement == "Your work needs improvement. Focus on developing your arguments more clearly."

\* a variant of generate_feedback with strict thresholds
FeedbackStrict(grade) ==
  IF grade > 80 * GradeScale THEN Excellent
  ELSE IF grade > 50 * GradeScale THEN Good
  ELSE NeedsImprovement

\* GradingModel.generate_feedback(self, grade)
GradingModel_generate_feedback(grade) ==
  IF grade >= 80 * GradeScale THEN Excellent
  ELSE IF grade >= 50 * GradeScale THEN Good
  ELSE NeedsImprovement

\* the module-level generate_feedback(grade, text)
generate_feedback(grade, text) == GradingModel_generate_feedback(grade)

\* the callers' feedback = generate_feedback(grade, text) after grade = predict_score(text)
GenerateFeedback ==
  /\ pc = "done"
  /\ ~raised
  /\ pc' = "fed"
  /\ feedback' = generate_feedback(ret, assignment_text)
  /\ UNCHANGED <<max_chars, min_words, full_mark_word_count, assignment_text,
                 processed_text, words, truncated_text, result,
                 grade_from_sentiment, word_based_grade, invoked,
                 nwords, ret, raised, train_ret, nTrain>>
  /\ UNCHANGED <<authVars, routeVars>>

\* the caller is finished with the grade and the feedback
PG_Finish ==
  /\ pc \in {"done", "fed"}
  /\ pc' = "idle"
  /\ assignment_text' = <<>>
  /\ result' = NoResult
  /\ grade_from_sentiment' = None
  /\ word_based_grade' = None
  /\ invoked' = FALSE
  /\ nwords' = 0
  /\ ret' = 0
  /\ raised' = FALSE
  /\ feedback' = ""
  /\ UNCHANGED <<max_chars, min_words, full_mark_word_count, processed_text,
                 words, truncated_text, train_ret, nTrain>>
  /\ UNCHANGED <<authVars, routeVars>>

(***************************************************************************)
(* train_on_examples                                                       *)
(***************************************************************************)
TrainStatus == "Training simulated; no changes applied."

NoTraining == [epochs |-> 0, status |-> ""]

\* a variant of train_on_examples that tunes min_words to the epochs
TrainedParamsTuned(params, examples, epochs) ==
  [params EXCEPT !.min_words = epochs]

\* what GradingModel.train_on_examples does to self.*: nothing
TrainedParams(params, examples, epochs) == params

\* GradingModel.train_on_examples(self, examples, epochs), between two gradings
TrainOnExamples(examples, epochs) ==
  /\ pc = "idle"
  /\ nTrain < MaxTrain
  /\ nTrain' = nTrain + 1
  /\ train_ret' = [epochs |-> epochs, status |-> TrainStatus]
  /\ LET p == TrainedParams([max_chars |-> max_chars, min_words |-> min_words,
                             full_mark_word_count |-> full_mark_word_count],
                            examples, epochs)
     IN  /\ max_chars' = p.max_chars
         /\ min_words' = p.min_words
         /\ full_mark_word_count' = p.full_mark_word_count
  /\ UNCHANGED <<pc, assignment_text, processed_text, words, truncated_text,
                 result, grade_from_sentiment, word_based_grade, invoked,
                 nwords, ret, raised, feedback>>
  /\ UNCHANGED <<authVars, routeVars>>

\* training examples: {text, score} pairs, here by their number
ExampleLists == {0, 1, 2}

InitGrade ==
  /\ max_chars = DefaultMaxChars
  /\ min_words = DefaultMinWords
  /\ full_mark_word_count = DefaultFullMark
  /\ pc = "idle"
  /\ assignment_text = <<>>
  /\ processed_text = <<>>
  /\ words = <<>>
  /\ truncated_text = <<>>
  /\ result = NoResult
  /\ grade_from_sentiment = None
  /\ word_based_grade = None
  /\ invoked = FALSE
  /\ nwords = 0
  /\ ret = 0
  /\ raised = FALSE
  /\ feedback = ""
  /\ train_ret = NoTraining
  /\ nTrain = 0

NextGrade ==
  \/ \E text \in Texts : PG_Call(text)
  \/ PG_Preprocess
  \/ PG_Reject
  \/ PG_Truncate
  \/ \E res \in PipelineResults : PG_Classify(res)
  \/ GenerateFeedback
  \/ PG_Finish
  \/ \E ex \in ExampleLists, ep \in Epochs : TrainOnExamples(ex, ep)



(***************************************************************************)
(* classroom_integration.py: requests that construct a ClassroomService    *)
(* and call one of its methods.  Flask's development server handles each   *)
(* request in its own thread, so the steps of different requests           *)
(* interleave; the only state they share is the token file.                *)
(***************************************************************************)
Reqs == 1..NumReq

\* a credential object: how its token was obtained and by which request,
\* and the flags get_classroom_service reads
Cred(how, by, valid, expired, refresh_token) ==
  [how |-> how, by |-> by, valid |-> valid, expired |-> expired,
   refresh_token |-> refresh_token]

NoCred == Cred("none", 0, FALSE, FALSE, FALSE)       \* creds = None
Absent == Cred("absent", 0, FALSE, FALSE, FALSE)     \* no token file
Partial == Cred("partial", 0, FALSE, FALSE, FALSE)   \* opened 'wb', not dumped

\* what a token file left by an earlier run can hold
CachedCreds ==
  { Cred("cached", 0, TRUE, FALSE, TRUE),      \* valid
    Cred("cached", 0, FALSE, TRUE, TRUE),      \* expired, refreshable
    Cred("cached", 0, FALSE, TRUE, FALSE),     \* expired, no refresh token
    Cred("cached", 0, FALSE, FALSE, TRUE) }    \* no access token

\* creds.refresh(Request()) succeeded: the same object with a new token
Refreshed(c, p) == [c EXCEPT !.how = "refresh", !.by = p, !.valid = TRUE,
                             !.expired = FALSE]

\* flow.run_local_server(port=8080)
NewCreds(p) == Cred("oauth", p, TRUE, FALSE, TRUE)

InGetService == {"exists", "load", "test", "refresh", "oauth", "open_wb",
                 "dump", "build"}

\* request p enters ClassroomService.__init__ -> get_classroom_service
GCS_Start(p) ==
  /\ cpc[p] = "idle"
  /\ cpc' = [cpc EXCEPT ![p] = "exists"]
  /\ creds' = [creds EXCEPT ![p] = NoCred]
  /\ overlapped' = [q \in Reqs |->
       IF q = p THEN \E r \in Reqs \ {p} : cpc[r] \in InGetService
       ELSE overlapped[q] \/ cpc[q] \in InGetService]
  /\ UNCHANGED <<token_file, raisedAt, mcall, mret, path, ranOAuth, wrote,
                 fileAtReturn>>
  /\ UNCHANGED <<gradeVars, routeVars>>

\* if os.path.exists(TOKEN_PICKLE)
GCS_Exists(p) ==
  /\ cpc[p] = "exists"
  /\ cpc' = [cpc EXCEPT ![p] = IF token_file = Absent THEN "test" ELSE "load"]
  /\ UNCHANGED <<token_file, creds, raisedAt, mcall, mret, path, ranOAuth,
                 wrote, fileAtReturn, overlapped>>
  /\ UNCHANGED <<gradeVars, routeVars>>

\* an exception leaves get_classroom_service, and with it __init__, at
\* statement `at`: the request has no client, and its locals are gone
Raise(p, at) ==
  /\ cpc' = [cpc EXCEPT ![p] = "raised"]
  /\ raisedAt' = [raisedAt EXCEPT ![p] = at]
  /\ creds' = [creds EXCEPT ![p] = NoCred]
  /\ path' = [path EXCEPT ![p] = ""]
  /\ ranOAuth' = [ranOAuth EXCEPT ![p] = FALSE]
  /\ wrote' = [wrote EXCEPT ![p] = FALSE]
  /\ fileAtReturn' = [fileAtReturn EXCEPT ![p] = Absent]
  /\ overlapped' = [overlapped EXCEPT ![p] = FALSE]

\* with open(TOKEN_PICKLE, 'rb') as token: creds = pickle.load(token);
\* a file another request has truncated raises EOFError, which nothing catches
GCS_Load(p) ==
  /\ cpc[p] = "load"
  /\ IF token_file = Partial
       THEN Raise(p, "load")
       ELSE /\ cpc' = [cpc EXCEPT ![p] = "test"]
            /\ creds' = [creds EXCEPT ![p] = token_file]
            /\ UNCHANGED <<raisedAt, path, ranOAuth, wrote, fileAtReturn,
                           overlapped>>
  /\ UNCHANGED <<token_file, mcall, mret>>
  /\ UNCHANGED <<gradeVars, routeVars>>

\* if not creds or not creds.valid: ... if creds and creds.expired and
\* creds.refresh_token: ... else: ...
NextAfterTest(c) ==
  IF c = NoCred \/ ~c.valid
    THEN IF c # NoCred /\ c.expired /\ c.refresh_token THEN "refresh" ELSE "oauth"
    ELSE "build"

GCS_Test(p) ==
  /\ cpc[p] = "test"
  /\ cpc' = [cpc EXCEPT ![p] = NextAfterTest(creds[p])]
  /\ path' = [path EXCEPT ![p] =
       IF NextAfterTest(creds[p]) = "build" THEN "cached"
       ELSE NextAfterTest(creds[p])]
  /\ UNCHANGED <<token_file, creds, raisedAt, mcall, mret, ranOAuth, wrote,
                 fileAtReturn, overlapped>>
  /\ UNCHANGED <<gradeVars, routeVars>>

\* try: creds.refresh(Request()) except Exception: logger.error(...)
GCS_Refresh(p, ok) ==
  /\ cpc[p] = "refresh"
  /\ cpc' = [cpc EXCEPT ![p] = "open_wb"]
  /\ creds' = [creds EXCEPT ![p] = IF ok THEN Refreshed(creds[p], p) ELSE creds[p]]
  /\ UNCHANGED <<token_file, raisedAt, mcall, mret, path, ranOAuth, wrote,
                 fileAtReturn, overlapped>>
  /\ UNCHANGED <<gradeVars, routeVars>>

\* try: flow = ...; creds = flow.run_local_server(port=8080)
\* except Exception as e: logger.error(...); raise e
GCS_OAuth(p, ok) ==
  /\ cpc[p] = "oauth"
  /\ IF ok
       THEN /\ cpc' = [cpc EXCEPT ![p] = "open_wb"]
            /\ creds' = [creds EXCEPT ![p] = NewCreds(p)]
            /\ ranOAuth' = [ranOAuth EXCEPT ![p] = TRUE]
            /\ UNCHANGED <<raisedAt, path, wrote, fileAtReturn, overlapped>>
       ELSE Raise(p, "oauth")
  /\ UNCHANGED <<token_file, mcall, mret>>
  /\ UNCHANGED <<gradeVars, routeVars>>

\* with open(TOKEN_PICKLE, 'wb') as token: the file is truncated; a failure
\* to open it (OSError) is not caught
GCS_OpenWrite(p, ok) ==
  /\ cpc[p] = "open_wb"
  /\ IF ok
       THEN /\ cpc' = [cpc EXCEPT ![p] = "dump"]
            /\ token_file' = Partial
            /\ UNCHANGED <<creds, raisedAt, path, ranOAuth, wrote,
                           fileAtReturn, overlapped>>
       ELSE /\ Raise(p, "open_wb")
            /\ token_file' = token_file
  /\ UNCHANGED <<mcall, mret>>
  /\ UNCHANGED <<gradeVars, routeVars>>

\* a variant of DumpedFile that leaves the file as it was opened
DumpedFileSkipped(file, c) == file

\* the token file after pickle.dump(creds, token) and the close
DumpedFile(file, c) == c

\* pickle.dump(creds, token)
GCS_Dump(p) ==
  /\ cpc[p] = "dump"
  /\ cpc' = [cpc EXCEPT ![p] = "build"]
  /\ token_file' = DumpedFile(token_file, creds[p])
  /\ wrote' = [wrote EXCEPT ![p] = TRUE]
  /\ UNCHANGED <<creds, raisedAt, mcall, mret, path, ranOAuth, fileAtReturn,
                 overlapped>>
  /\ UNCHANGED <<gradeVars, routeVars>>

\* try: service = build(...); return service
\* except Exception as e: logger.error(...); raise e
GCS_Build(p, ok) ==
  /\ cpc[p] = "build"
  /\ IF ok
       THEN /\ cpc' = [cpc EXCEPT ![p] = "built"]
            /\ fileAtReturn' = [fileAtReturn EXCEPT ![p] = token_file]
            /\ UNCHANGED <<creds, raisedAt, path, ranOAuth, wrote, overlapped>>
       ELSE Raise(p, "build")
  /\ UNCHANGED <<token_file, mcall, mret>>
  /\ UNCHANGED <<gradeVars, routeVars>>

(***************************************************************************)
(* The four methods.  The remote call either answers (with or without the  *)
(* key the method reads), or raises HttpError (whose text may name         *)
(* ProjectPermissionDenied), or raises another Exception.                  *)
(***************************************************************************)
Methods == {"list_courses", "fetch_assignments", "get_student_submissions",
            "post_grade"}

ApiOutcomes == {"response", "response_without_key", "HttpError",
                "HttpError_ProjectPermissionDenied", "Exception"}

\* a variant of MethodReturn that catches HttpError only
MethodReturnHttpOnly(m, outcome) ==
  IF outcome \in {"response", "response_without_key"}
    THEN IF m = "post_grade" THEN "object" ELSE "list"
  ELSE IF outcome = "Exception" THEN "raise"
  ELSE IF m = "post_grade" /\ outcome = "HttpError_ProjectPermissionDenied"
    THEN "simulated"
  ELSE "string"

\* the kind of value method m returns: the parsed "list" (response.get(key, [])),
\* the patched "object", the "simulated" dict of post_grade, or an error "string"
MethodReturn(m, outcome) ==
  IF outcome \in {"response", "response_without_key"}
    THEN IF m = "post_grade" THEN "object" ELSE "list"
  ELSE IF m = "post_grade" /\ outcome = "HttpError_ProjectPermissionDenied"
    THEN "simulated"
  ELSE "string"

\* request p calls method m of its ClassroomService; when the method has
\* returned (or raised) the handler is done with the client
CS_Method(p, m, outcome) ==
  /\ cpc[p] = "built"
  /\ mcall' = [mcall EXCEPT ![p] = [method |-> m, outcome |-> outcome]]
  /\ mret' = [mret EXCEPT ![p] = MethodReturn(m, outcome)]
  /\ IF MethodReturn(m, outcome) = "raise"
       THEN Raise(p, "method")
       ELSE /\ cpc' = [cpc EXCEPT ![p] = "returned"]
            /\ raisedAt' = raisedAt
            /\ creds' = [creds EXCEPT ![p] = NoCred]
            /\ path' = [path EXCEPT ![p] = ""]
            /\ ranOAuth' = [ranOAuth EXCEPT ![p] = FALSE]
            /\ wrote' = [wrote EXCEPT ![p] = FALSE]
            /\ fileAtReturn' = [fileAtReturn EXCEPT ![p] = Absent]
            /\ overlapped' = [overlapped EXCEPT ![p] = FALSE]
  /\ UNCHANGED token_file
  /\ UNCHANGED <<gradeVars, routeVars>>

NoCall == [method |-> "", outcome |-> ""]

InitAuth ==
  /\ token_file \in {Absent} \cup CachedCreds
  /\ cpc = [p \in Reqs |-> "idle"]
  /\ creds = [p \in Reqs |-> NoCred]
  /\ raisedAt = [p \in Reqs |-> ""]
  /\ mcall = [p \in Reqs |-> NoCall]
  /\ mret = [p \in Reqs |-> ""]
  /\ path = [p \in Reqs |-> ""]
  /\ ranOAuth = [p \in Reqs |-> FALSE]
  /\ wrote = [p \in Reqs |-> FALSE]
  /\ fileAtReturn = [p \in Reqs |-> Absent]
  /\ overlapped = [p \in Reqs |-> FALSE]

NextAuth ==
  \E p \in Reqs :
    \/ GCS_Start(p)
    \/ GCS_Exists(p)
    \/ GCS_Load(p)
    \/ GCS_Test(p)
    \/ \E ok \in BOOLEAN : GCS_Refresh(p, ok)
    \/ \E ok \in BOOLEAN : GCS_OAuth(p, ok)
    \/ \E ok \in BOOLEAN : GCS_OpenWrite(p, ok)
    \/ GCS_Dump(p)
    \/ \E ok \in BOOLEAN : GCS_Build(p, ok)
    \/ \E m \in Methods, outcome \in ApiOutcomes : CS_Method(p, m, outcome)

(***************************************************************************)
(* main.py: the route handlers.  A handler's collaborator calls and side   *)
(* effects are recorded in `effects`, in the order the handler makes them. *)
(***************************************************************************)
\* what a request carries: whether course_id is given, the file part and
\* its filename, whether student_id is given, and the JSON body
JsonBodies == {"examples", "empty_examples", "no_examples", "not_an_object",
               "malformed"}

Requests ==
  [route : {"fetch-assignments", "grade-all"}, course_id : BOOLEAN,
   file_part : {FALSE}, filename : {FALSE}, student_id : {FALSE},
   body : {"none"}]
  \cup
  [route : {"upload-assignment"}, course_id : {FALSE},
   file_part : BOOLEAN, filename : BOOLEAN, student_id : BOOLEAN,
   body : {"none"}]
  \cup
  [route : {"train-model"}, course_id : {FALSE},
   file_part : {FALSE}, filename : {FALSE}, student_id : {FALSE},
   body : JsonBodies]

NoRequest == [route |-> "none", course_id |-> FALSE, file_part |-> FALSE,
              filename |-> FALSE, student_id |-> FALSE, body |-> "none"]

Response(st, eff) == [status |-> st, effects |-> eff]

\* upload_assignment(): save_raises is whether file.save(filepath) raised
upload_assignment(req, save_raises) ==
  IF ~req.file_part THEN Response(400, <<>>)
  ELSE IF ~req.filename THEN Response(400, <<>>)
  ELSE IF save_raises THEN Response(500, <<>>)
  ELSE IF ~req.student_id THEN Response(400, <<"save", "extract">>)
  ELSE Response(200, <<"save", "extract", "predict", "feedback", "db">>)

\* train_model()
train_model(req) ==
  IF req.body \in {"malformed", "not_an_object"} THEN Response(500, <<>>)
  ELSE IF req.body \in {"no_examples", "empty_examples"} THEN Response(400, <<>>)
  ELSE Response(200, <<"train">>)

\* fetch_and_grade(): client_ok is whether ClassroomService() returned,
\* n the number of assignments fetched (None: an error string)
fetch_and_grade(req, client_ok, n) ==
  IF ~req.course_id THEN Response(400, <<>>)
  ELSE IF ~client_ok THEN Response(500, <<>>)
  ELSE IF n = None THEN Response(200, <<"client", "fetch_assignments">>)
  ELSE Response(200, <<"client", "fetch_assignments">>
                       \o [k \in 1..(2 * n) |->
                             IF k % 2 = 1 THEN "predict" ELSE "feedback"])

\* a request arrives
R_Receive(req) ==
  /\ rpc = "idle"
  /\ rpc' = "handle"
  /\ request' = req
  /\ status' = 0
  /\ effects' = <<>>
  /\ assignments' = <<>>
  /\ ai' = 0
  /\ ga_grade' = None
  /\ submissions' = <<>>
  /\ si' = 0
  /\ graded_results' = <<>>
  /\ posts' = <<>>
  /\ listings' = <<>>
  /\ grades' = <<>>
  /\ outcomes' = <<>>
  /\ UNCHANGED <<gradeVars, authVars>>

Respond(resp) ==
  /\ rpc' = "responded"
  /\ status' = resp.status
  /\ effects' = resp.effects

R_UploadAssignment(save_raises) ==
  /\ rpc = "handle"
  /\ request.route = "upload-assignment"
  /\ Respond(upload_assignment(request, save_raises))
  /\ UNCHANGED <<request, assignments, ai, ga_grade, submissions, si,
                 graded_results, posts, listings, grades, outcomes>>
  /\ UNCHANGED <<gradeVars, authVars>>

R_TrainModel ==
  /\ rpc = "handle"
  /\ request.route = "train-model"
  /\ Respond(train_model(request))
  /\ UNCHANGED <<request, assignments, ai, ga_grade, submissions, si,
                 graded_results, posts, listings, grades, outcomes>>
  /\ UNCHANGED <<gradeVars, authVars>>

R_FetchAssignments(client_ok, n) ==
  /\ rpc = "handle"
  /\ request.route = "fetch-assignments"
  /\ Respond(fetch_and_grade(request, client_ok, n))
  /\ UNCHANGED <<request, assignments, ai, ga_grade, submissions, si,
                 graded_results, posts, listings, grades, outcomes>>
  /\ UNCHANGED <<gradeVars, authVars>>

(***************************************************************************)
(* grade_all(), statement by statement.                                    *)
(***************************************************************************)
\* the assignments fetch_assignments can return: n assignments, ids 1..n
Assignment(i) == [id |-> i, title |-> "Untitled"]

AssignmentList(n) == [i \in 1..n |-> Assignment(i)]

\* the submissions get_student_submissions can return for coursework cw:
\* n submissions with ids 10*cw + 1 .. 10*cw + n
SubmissionList(cw, n) == [j \in 1..n |-> [id |-> 10 * cw + j]]

\* what get_student_submissions answers: a list, or an error string
Listing(ok, subs) == [ok |-> ok, subs |-> subs]

\* the grades predict_score answers for the descriptions
GradeSamples == {0, 45 * GradeScale}

\* what post_grade answers: the patched object (or the simulated one), or
\* an error string
PostResults == {"object", "string"}

\* course_id = request.args.get('course_id'); if not course_id: return ..., 400
GA_Validate ==
  /\ rpc = "handle"
  /\ request.route = "grade-all"
  /\ IF ~request.course_id
       THEN rpc' = "responded" /\ status' = 400
       ELSE rpc' = "ga_client" /\ status' = status
  /\ UNCHANGED <<request, effects, assignments, ai, ga_grade, submissions, si,
                 graded_results, posts, listings, grades, outcomes>>
  /\ UNCHANGED <<gradeVars, authVars>>

\* cs = ClassroomService(): an exception it raises becomes Flask's 500
GA_Client(ok) ==
  /\ rpc = "ga_client"
  /\ IF ok
       THEN rpc' = "ga_fetch" /\ status' = status
            /\ effects' = Append(effects, "client")
       ELSE rpc' = "responded" /\ status' = 500 /\ effects' = effects
  /\ UNCHANGED <<request, assignments, ai, ga_grade, submissions, si,
                 graded_results, posts, listings, grades, outcomes>>
  /\ UNCHANGED <<gradeVars, authVars>>

\* assignments = cs.fetch_assignments(course_id); graded_results = []
\* if not isinstance(assignments, list): return jsonify(...), 500
GA_Fetch(ok, n) ==
  /\ rpc = "ga_fetch"
  /\ effects' = Append(effects, "fetch_assignments")
  /\ IF ok
       THEN /\ rpc' = "ga_loop"
            /\ assignments' = AssignmentList(n)
            /\ ai' = 1
            /\ status' = status
       ELSE /\ rpc' = "responded"
            /\ status' = 500
            /\ assignments' = assignments
            /\ ai' = ai
  /\ UNCHANGED <<request, ga_grade, submissions, si, graded_results, posts,
                 listings, grades, outcomes>>
  /\ UNCHANGED <<gradeVars, authVars>>

\* a variant of NextAssignment that leaves the loop
NextAssignmentBreaks(i, n) == n + 1

\* the loop over assignments goes on with the next one
NextAssignment(i, n) == i + 1

\* grade = predict_score(...); submissions = cs.get_student_submissions(...)
\* with a list answered: the inner loop starts
GA_Listed(g, n) ==
  /\ rpc = "ga_loop"
  /\ ai <= Len(assignments)
  /\ ga_grade' = g
  /\ submissions' = SubmissionList(assignments[ai].id, n)
  /\ si' = 1
  /\ rpc' = "ga_posts"
  /\ effects' = effects \o <<"predict", "get_student_submissions">>
  /\ listings' = Append(listings, Listing(TRUE, submissions'))
  /\ grades' = Append(grades, g)
  /\ UNCHANGED <<request, status, assignments, ai, graded_results, posts,
                 outcomes>>
  /\ UNCHANGED <<gradeVars, authVars>>

\* ... with an error string answered: one error entry, then the next assignment
GA_ListingFailed(g) ==
  /\ rpc = "ga_loop"
  /\ ai <= Len(assignments)
  /\ ga_grade' = g
  /\ submissions' = <<>>
  /\ graded_results' = Append(graded_results,
       [coursework_id |-> assignments[ai].id, title |-> assignments[ai].title,
        student_submission_id |-> None, grade |-> None, result |-> "none",
        error |-> TRUE])
  /\ ai' = NextAssignment(ai, Len(assignments))
  /\ effects' = effects \o <<"predict", "get_student_submissions">>
  /\ listings' = Append(listings, Listing(FALSE, <<>>))
  /\ grades' = Append(grades, g)
  /\ UNCHANGED <<rpc, request, status, assignments, si, posts, outcomes>>
  /\ UNCHANGED <<gradeVars, authVars>>

\* result = cs.post_grade(course_id, coursework_id, student_submission_id, grade)
\* graded_results.append({...})
GA_Post(res) ==
  /\ rpc = "ga_posts"
  /\ si <= Len(submissions)
  /\ posts' = Append(posts,
       [coursework_id |-> assignments[ai].id,
        student_submission_id |-> submissions[si].id, grade |-> ga_grade])
  /\ graded_results' = Append(graded_results,
       [coursework_id |-> assignments[ai].id, title |-> assignments[ai].title,
        student_submission_id |-> submissions[si].id, grade |-> ga_grade,
        result |-> res, error |-> FALSE])
  /\ si' = si + 1
  /\ effects' = Append(effects, "post_grade")
  /\ outcomes' = Append(outcomes, res)
  /\ UNCHANGED <<rpc, request, status, assignments, ai, ga_grade, submissions,
                 listings, grades>>
  /\ UNCHANGED <<gradeVars, authVars>>

\* the inner loop is exhausted
GA_SubmissionsDone ==
  /\ rpc = "ga_posts"
  /\ si > Len(submissions)
  /\ ai' = NextAssignment(ai, Len(assignments))
  /\ rpc' = "ga_loop"
  /\ UNCHANGED <<request, status, effects, assignments, ga_grade, submissions,
                 si, graded_results, posts, listings, grades, outcomes>>
  /\ UNCHANGED <<gradeVars, authVars>>

\* return render_template('grade_all_results.html', graded_results=graded_results)
GA_Render ==
  /\ rpc = "ga_loop"
  /\ ai > Len(assignments)
  /\ rpc' = "responded"
  /\ status' = 200
  /\ UNCHANGED <<request, effects, assignments, ai, ga_grade, submissions, si,
                 graded_results, posts, listings, grades, outcomes>>
  /\ UNCHANGED <<gradeVars, authVars>>

\* the response is sent
R_Done ==
  /\ rpc = "responded"
  /\ rpc' = "idle"
  /\ request' = NoRequest
  /\ status' = 0
  /\ effects' = <<>>
  /\ assignments' = <<>>
  /\ ai' = 0
  /\ ga_grade' = None
  /\ submissions' = <<>>
  /\ si' = 0
  /\ graded_results' = <<>>
  /\ posts' = <<>>
  /\ listings' = <<>>
  /\ grades' = <<>>
  /\ outcomes' = <<>>
  /\ UNCHANGED <<gradeVars, authVars>>

InitRoutes ==
  /\ rpc = "idle"
  /\ request = NoRequest
  /\ status = 0
  /\ effects = <<>>
  /\ assignments = <<>>
  /\ ai = 0
  /\ ga_grade = None
  /\ submissions = <<>>
  /\ si = 0
  /\ graded_results = <<>>
  /\ posts = <<>>
  /\ listings = <<>>
  /\ grades = <<>>
  /\ outcomes = <<>>

NextRoutes ==
  \/ \E req \in Requests : R_Receive(req)
  \/ \E save_raises \in BOOLEAN : R_UploadAssignment(save_raises)
  \/ R_TrainModel
  \/ \E client_ok \in BOOLEAN, n \in {None} \cup (0..MaxAssignments) :
       R_FetchAssignments(client_ok, n)
  \/ GA_Validate
  \/ \E ok \in BOOLEAN : GA_Client(ok)
  \/ \E ok \in BOOLEAN, n \in 0..MaxAssignments : GA_Fetch(ok, n)
  \/ \E g \in GradeSamples, n \in 0..MaxSubmissions : GA_Listed(g, n)
  \/ \E g \in GradeSamples : GA_ListingFailed(g)
  \/ \E res \in PostResults : GA_Post(res)
  \/ GA_SubmissionsDone
  \/ GA_Render
  \/ R_Done

(***************************************************************************)
(* The specifications: the grading heuristic, the Classroom client under   *)
(* concurrent requests, and the route handlers.                            *)
(***************************************************************************)
\* no request has constructed a ClassroomService; no token file
AuthQuiet ==
  /\ InitAuth
  /\ token_file = Absent

\* the server has started; the token file is whatever an earlier run left
Init == InitGrade /\ InitAuth /\ InitRoutes

\* the server has started; there is no token file
InitNoToken == InitGrade /\ AuthQuiet /\ InitRoutes

SpecGrade == InitNoToken /\ [][NextGrade]_vars

SpecAuth == Init /\ [][NextAuth]_vars

SpecRoutes == InitNoToken /\ [][NextRoutes]_vars

(***************************************************************************)
(* Properties of the grading heuristic.                                    *)
(***************************************************************************)
Returned == pc \in {"done", "fed"}

\* C1: predict_grade returns, for every text and every classifier outcome
\* (any label, any score in [0,1], or a failure), a grade in [0,100] and
\* raises nothing; on the success path the sentiment component and the
\* word-count component are each in [0,100].
C1_GradeInRange ==
  Returned =>
    /\ ~raised
    /\ ret >= 0 /\ ret <= 100 * GradeScale
    /\ result.kind = "ok" =>
         /\ grade_from_sentiment >= 0 /\ grade_from_sentiment <= 100 * GradeScale
         /\ word_based_grade >= 0 /\ word_based_grade <= 100 * GradeScale

\* a text of more than full_mark_word_count words graded on the success path
C1_Witness ==
  /\ pc = "done" /\ result.kind = "ok" /\ nwords > DefaultFullMark
  /\ word_based_grade = 100 * GradeScale
  /\ ret = 100 * GradeScale

\* C2: a text of fewer than 20 words is graded exactly 0.0, and the
\* sentiment classifier is not invoked for it.
C2_ShortTextZero ==
  (Returned /\ nwords < 20) => (ret = 0 /\ ~raised /\ ~invoked /\ result = NoResult)

\* a text of 19 words was rejected
C2_Witness == pc = "done" /\ nwords = 19 /\ ret = 0 /\ ~invoked

\* C3: with at least min_words words and a classifier answer, the grade is
\* the mean of the sentiment component (score*100 for POSITIVE,
\* (1-score)*50 for NEGATIVE, so at most 50) and the word-count component
\* min(100, words/500*100).  Stated without division: the components are
\* sentNum/ScoreDen and wordNum/500.
C3_MeanOfComponents ==
  (Returned /\ nwords >= 20 /\ result.kind = "ok"
     /\ result.label \in {"POSITIVE", "NEGATIVE"}) =>
    LET sentNum == IF result.label = "POSITIVE"
                     THEN 100 * result.score
                     ELSE 50 * (ScoreDen - result.score)
        wordNum == IF 100 * nwords > 100 * 500 THEN 100 * 500 ELSE 100 * nwords
    IN  /\ grade_from_sentiment * ScoreDen = GradeScale * sentNum
        /\ word_based_grade * 500 = GradeScale * wordNum
        /\ 2 * ret = grade_from_sentiment + word_based_grade
        /\ result.label = "NEGATIVE" => grade_from_sentiment <= 50 * GradeScale

\* a NEGATIVE answer of score 0 on a text below the full-mark word count:
\* sentiment component 50, word component 40, grade 45
C3_Witness ==
  /\ pc = "done" /\ result.kind = "ok" /\ result.label = "NEGATIVE"
  /\ result.score = 0 /\ nwords = 200
  /\ grade_from_sentiment = 50 * GradeScale
  /\ ret = 45 * GradeScale

\* C4: with at least min_words words and a failing classifier call,
\* predict_grade raises nothing and returns the word-count component alone.
C4_FallbackWordCount ==
  (Returned /\ nwords >= 20 /\ result.kind \in {"raise", "empty", "nokey"}) =>
    /\ ~raised
    /\ invoked
    /\ ret * 500 =
         GradeScale * (IF 100 * nwords > 100 * 500 THEN 100 * 500 ELSE 100 * nwords)

\* the classifier raised on a text of 100 words: grade 20
C4_Witness ==
  pc = "done" /\ result.kind = "raise" /\ nwords = 100 /\ ret = 20 * GradeScale

\* the grade predict_grade returns for n words and classifier answer res on
\* an instance that was never trained
UntrainedGrade(n, res) ==
  IF n < DefaultMinWords THEN 0
  ELSE IF res.kind = "ok"
    THEN (map_sentiment_to_grade(res.label, res.score)
            + WordBasedGrade(n, DefaultFullMark)) \div 2
    ELSE WordBasedGrade(n, DefaultFullMark)

\* C5: train_on_examples changes no state of the model and echoes epochs
\* with the fixed status; after any number of training calls predict_grade
\* returns what it returns with none.
C5_TrainingIsNoOp ==
  /\ max_chars = DefaultMaxChars
  /\ min_words = DefaultMinWords
  /\ full_mark_word_count = DefaultFullMark
  /\ nTrain > 0 => (train_ret.status = TrainStatus /\ train_ret.epochs \in Epochs)
  /\ Returned => (~raised /\ ret = UntrainedGrade(nwords, result))

\* graded after a training call, across the min_words threshold
C5_Witness ==
  /\ pc = "done" /\ nTrain > 0 /\ train_ret.epochs = 5
  /\ nwords = 20 /\ invoked /\ ret > 0

\* C6: the feedback is determined by the grade alone: "excellent" from 80,
\* "good" from 50 to below 80, "needs improvement" below 50; exactly one of
\* the three, whatever the text.
C6_FeedbackByGrade ==
  pc = "fed" =>
    /\ feedback \in {Excellent, Good, NeedsImprovement}
    /\ (feedback = Excellent) <=> (ret >= 80 * GradeScale)
    /\ (feedback = Good) <=> (ret >= 50 * GradeScale /\ ret < 80 * GradeScale)
    /\ (feedback = NeedsImprovement) <=> (ret < 50 * GradeScale)

\* a grade of exactly 80 got the "excellent" message
C6_Witness == pc = "fed" /\ ret = 80 * GradeScale /\ feedback = Excellent

(***************************************************************************)
(* Properties of the Classroom client.                                     *)
(***************************************************************************)
\* C7 as stated: no exception leaves the Classroom client, neither from
\* constructing ClassroomService nor from its four methods, and a method
\* returns either the parsed collection/object or an error string.
C7_NoExceptionPropagates ==
  \A p \in Reqs :
    /\ cpc[p] # "raised"
    /\ cpc[p] = "returned" => mret[p] \in {"list", "object", "string"}

\* C7 as amended: the four methods never raise; each returns the parsed
\* list or object when the remote call answers, an error string when it
\* raises, except that post_grade returns a simulated-success dict on an
\* HttpError naming ProjectPermissionDenied.  Constructing ClassroomService
\* raises only from the token load, the OAuth flow, the opening of the token
\* file for writing, or the service build; a failed refresh does not raise.
C7_MethodsFailSoft ==
  \A p \in Reqs :
    /\ cpc[p] = "raised" => raisedAt[p] \in {"load", "oauth", "open_wb", "build"}
    /\ cpc[p] = "returned" =>
         /\ mret[p] \in {"list", "object", "string", "simulated"}
         /\ (mret[p] \in {"list", "object"})
              <=> (mcall[p].outcome \in {"response", "response_without_key"})
         /\ (mret[p] = "simulated")
              <=> (mcall[p].method = "post_grade"
                     /\ mcall[p].outcome = "HttpError_ProjectPermissionDenied")

\* one request's method swallowed a non-HTTP exception, and another
\* request's construction raised from the service build
C7_Witness ==
  \E p, q \in Reqs :
    /\ cpc[p] = "returned" /\ mcall[p].outcome = "Exception" /\ mret[p] = "string"
    /\ cpc[q] = "raised" /\ raisedAt[q] = "build"

\* get_classroom_service has returned a service to request p
Serving(p) == cpc[p] = "built"

\* C10 as stated: whenever get_classroom_service returns a service, the
\* token file holds exactly the credential the service was built with;
\* with valid cached credentials no OAuth flow is run and the file is not
\* rewritten; on the refresh and OAuth paths the file is written before the
\* build.  Two requests may construct ClassroomService concurrently.
C10_TokenFileHoldsCreds ==
  \A p \in Reqs :
    Serving(p) =>
      /\ fileAtReturn[p] = creds[p]
      /\ path[p] = "cached" => (~ranOAuth[p] /\ ~wrote[p])
      /\ path[p] \in {"refresh", "oauth"} => wrote[p]

\* C10 as amended: the token file holds the credential the service was
\* built with for every request whose get_classroom_service ran while no
\* other request was inside get_classroom_service; the statements about the
\* three paths hold for every request.
C10_TokenFileHoldsCredsAlone ==
  \A p \in Reqs :
    Serving(p) =>
      /\ ~overlapped[p] => fileAtReturn[p] = creds[p]
      /\ path[p] = "cached" => (~ranOAuth[p] /\ ~wrote[p] /\ creds[p].valid)
      /\ path[p] \in {"refresh", "oauth"} => wrote[p]
      /\ ranOAuth[p] <=> path[p] = "oauth"

\* a request refreshed the cached credentials on its own and got its
\* service after another request had come and gone
C10_Witness ==
  \E p, q \in Reqs :
    /\ Serving(p) /\ ~overlapped[p] /\ path[p] = "refresh"
    /\ creds[p].how = "refresh" /\ creds[p].by = p
    /\ fileAtReturn[p] = creds[p] /\ wrote[p]
    /\ q # p /\ cpc[q] = "returned"

(***************************************************************************)
(* Properties of the route handlers.                                       *)
(***************************************************************************)
\* the request lacks a parameter its route requires
LacksRequired(req) ==
  \/ req.route \in {"fetch-assignments", "grade-all"} /\ ~req.course_id
  \/ req.route = "upload-assignment"
       /\ (~req.file_part \/ ~req.filename \/ ~req.student_id)
  \/ req.route = "train-model" /\ req.body \in {"no_examples", "empty_examples"}

\* C8: a request that lacks a required parameter is answered 4xx before
\* any collaborator call or side effect: no Classroom client, no saved
\* file, no text extraction, no grading, no training, no database write.
C8_ValidationBeforeEffects ==
  (rpc = "responded" /\ LacksRequired(request)) =>
    (status >= 400 /\ status <= 499 /\ effects = <<>>)

RECURSIVE ExpectedEntries(_, _)
\* the entries grade_all owes for assignments i.., after k post_grade calls
ExpectedEntries(i, k) ==
  IF i > Len(assignments) THEN <<>>
  ELSE IF listings[i].ok
    THEN [j \in 1..Len(listings[i].subs) |->
            [coursework_id |-> assignments[i].id, title |-> assignments[i].title,
             student_submission_id |-> listings[i].subs[j].id,
             grade |-> grades[i], result |-> outcomes[k + j], error |-> FALSE]]
         \o ExpectedEntries(i + 1, k + Len(listings[i].subs))
    ELSE << [coursework_id |-> assignments[i].id, title |-> assignments[i].title,
             student_submission_id |-> None, grade |-> None, result |-> "none",
             error |-> TRUE] >>
         \o ExpectedEntries(i + 1, k)

\* the post_grade calls those entries stand for
PostsOf(entries) ==
  LET made == SelectSeq(entries, LAMBDA e : ~e.error)
  IN  [k \in 1..Len(made) |->
         [coursework_id |-> made[k].coursework_id,
          student_submission_id |-> made[k].student_submission_id,
          grade |-> made[k].grade]]

\* C9: when fetch_assignments returned a list, grade_all has, at the
\* response, listed the submissions of every assignment, called post_grade
\* exactly once per submission returned, in assignment order then
\* submission order, with the grade predicted for that assignment, and
\* graded_results holds one entry per such submission carrying what
\* post_grade returned, and one error entry per failed listing.
C9_GradesEverySubmission ==
  (rpc = "responded" /\ request.route = "grade-all" /\ status = 200) =>
    /\ Len(listings) = Len(assignments)
    /\ Len(grades) = Len(assignments)
    /\ Len(outcomes) = Len(posts)
    /\ graded_results = ExpectedEntries(1, 0)
    /\ posts = PostsOf(ExpectedEntries(1, 0))

\* the first assignment's listing failed; the second had two submissions
\* and the first post_grade failed: three entries, two posts
C9_Witness ==
  /\ rpc = "responded" /\ request.route = "grade-all" /\ status = 200
  /\ Len(assignments) = 2
  /\ ~listings[1].ok /\ Len(listings[2].subs) = 2
  /\ outcomes = <<"string", "object">>
  /\ Len(graded_results) = 3 /\ Len(posts) = 2
  /\ graded_results[1].error /\ graded_results[3].result = "object"

=============================================================================
